---- MODULE Spec2Model ----
(***************************************************************************)
(* Model of pDiem's light client (src/src/main.rs): the LibraDemo trust    *)
(* anchor (trusted_state, latest_epoch_change_li, latest_li), init_state,  *)
(* verify_state_proof, get_transactions and the bridge sync loop.          *)
(*                                                                         *)
(* Option<T> is a sequence of length at most one: <<>> is None, <<x>> is   *)
(* Some(x).  A LedgerInfoWithSignatures is a record                        *)
(*   [epoch, version, next_epoch_state : Option<EpochState>, sigs]         *)
(* where sigs names the validator set whose quorum signed it, and an       *)
(* EpochState is [epoch, vs].  A TrustedState is [version, verifier].      *)
(***************************************************************************)
EXTENDS Integers, Sequences, FiniteSets, TLC

\* ---------------------------------------------------------------- bounds
MaxHundreds == 1
MaxEpoch == 2
MaxProofLen == 2
MaxPasses == 1

\* ------------------------------------------------------ program constants
known_version == 0
catch_up_limit == 100
new_limit == 1
pause_every == 100

\* ------------------------------------------------------------ data model
None == <<>>

Some(x) == <<x>>

IsSome(o) == Len(o) = 1

Unwrap(o) == o[1]

\* "a" is the validator set the checkpoints establish, "b" another signer
ValidatorSets == {"a", "b"}

\* ledger versions on both sides of a page boundary
Versions == {h * catch_up_limit + r : h \in 0..MaxHundreds, r \in {0, 1}}

\* the last ledger info of epoch e sits at version EpochEnd(e)
EpochEnd(e) == e * (catch_up_limit + 1)

\* what a checkpoint signed in epoch e may carry as next_epoch_state:
\* nothing, the set of epoch e + 1, or a set that does not advance the epoch
NextEpochStates(e) ==
  {None, Some([epoch |-> e + 1, vs |-> "a"]), Some([epoch |-> e, vs |-> "a"])}

\* checkpoints that may appear as a step of an epoch-change proof
ProofSteps ==
  UNION { { [epoch |-> e, version |-> EpochEnd(e), next_epoch_state |-> n, sigs |-> s] :
              n \in NextEpochStates(e), s \in ValidatorSets } :
          e \in 0..(MaxEpoch - 1) }

\* candidate ledger infos (the latest ledger info the server reports)
Candidates ==
  { [epoch |-> e, version |-> v, next_epoch_state |-> None, sigs |-> s] :
      e \in 0..MaxEpoch, v \in Versions, s \in ValidatorSets }

SeqsUpTo(S, n) == UNION { [1..k -> S] : k \in 0..n }

EpochChangeProofs == SeqsUpTo(ProofSteps, MaxProofLen)

\* what the get_state_proof request can come back with: a transport
\* failure, bytes that do not decode, or the three decoded parts; links
\* are the consistency proofs, TRUE for one that links the two versions
Responses(proofs, candidates, links) ==
  { [kind |-> "transport_error"], [kind |-> "undecodable"] }
  \cup
  { [kind |-> "decoded", epoch_change_proof |-> p,
     ledger_info_with_signatures |-> li, ledger_consistency_proof |-> c] :
      p \in proofs, li \in candidates, c \in links }

\* every proof and candidate within the bounds, for one call of init_state
StateProofResponses == Responses(EpochChangeProofs, Candidates, {TRUE})

\* the answers of the server the sync loop runs against: the chain from
\* genesis, whole or cut short, intact or with the second step signed by
\* the wrong set, and a proof that starts after genesis
Genesis ==
  [epoch |-> 0, version |-> 0,
   next_epoch_state |-> Some([epoch |-> 1, vs |-> "a"]), sigs |-> "a"]

EndOfEpochOne(s) ==
  [epoch |-> 1, version |-> EpochEnd(1),
   next_epoch_state |-> Some([epoch |-> 2, vs |-> "a"]), sigs |-> s]

LoopProofs ==
  { <<>>, <<[Genesis EXCEPT !.next_epoch_state = None]>>, <<Genesis>>,
    <<Genesis, EndOfEpochOne("a")>>, <<Genesis, EndOfEpochOne("b")>>,
    <<EndOfEpochOne("a")>> }

\* its candidates are signed in the epochs that chain establishes
LoopCandidates == {li \in Candidates : li.epoch \in {1, 2}}

LoopResponses == Responses(LoopProofs, LoopCandidates, BOOLEAN)

\* ------------------------------------------------ the ratchet engine
\* TrustedState::latest_version
latest_version(ts) == ts.version

\* TrustedState::try_from(ledger_info): the anchor bootstrapped from a
\* checkpoint takes its version and the validator set it establishes;
\* a checkpoint that establishes no validator set gives no anchor (Err)
TrustedState_try_from(li) ==
  IF IsSome(li.next_epoch_state)
    THEN Some([version |-> li.version, verifier |-> Unwrap(li.next_epoch_state)])
    ELSE None

\* verify_signatures(checkpoint, validator_set): the checkpoint is signed
\* in the epoch of the validator set and by that set
verify_signatures(es, li) == li.epoch = es.epoch /\ li.sigs = es.vs

\* the steps of the proof that are not older than the anchor's epoch
RECURSIVE SkipStale(_, _)
SkipStale(es, proof) ==
  IF proof = <<>> THEN <<>>
  ELSE IF Head(proof).epoch < es.epoch THEN SkipStale(es, Tail(proof))
  ELSE proof

\* one step of the walk: signed by the set the previous step established,
\* establishes a set, and strictly increases the epoch id
StepOk(es, step) ==
  /\ verify_signatures(es, step)
  /\ IsSome(step.next_epoch_state)
  /\ Unwrap(step.next_epoch_state).epoch > es.epoch

\* walk the steps in order from the validator set es; the result is the
\* validator set the last step establishes, or None on a gap
RECURSIVE WalkProof(_, _)
WalkProof(es, steps) ==
  IF steps = <<>> THEN Some(es)
  ELSE IF StepOk(es, Head(steps))
    THEN WalkProof(Unwrap(Head(steps).next_epoch_state), Tail(steps))
    ELSE None

\* EpochChangeProof::verify: the walk over the steps not older than the
\* anchor; an empty or wholly stale proof is an error
EpochChangeProof_verify(es, proof) ==
  IF SkipStale(es, proof) = <<>> THEN None ELSE WalkProof(es, SkipStale(es, proof))

Err(e) == [ok |-> FALSE, change |-> e]

\* TrustedState::verify_and_ratchet(li, epoch_change_proof): the epoch of
\* the candidate decides between the same-epoch and the cross-epoch
\* advance; that the candidate is not older than the anchor is the
\* caller's precondition
verify_and_ratchet(ts, li, proof) ==
  IF li.epoch < ts.verifier.epoch
    THEN Err("StaleProof")
  ELSE IF li.epoch > ts.verifier.epoch
    THEN LET v == EpochChangeProof_verify(ts.verifier, proof) IN
         IF IsSome(v) /\ verify_signatures(Unwrap(v), li)
           THEN [ok |-> TRUE, change |-> "Epoch",
                 new_state |-> [version |-> li.version, verifier |-> Unwrap(v)],
                 latest_epoch_change_li |-> proof[Len(proof)]]
           ELSE Err("VerificationFailed")
  ELSE IF li.version = ts.version
    THEN [ok |-> TRUE, change |-> "NoChange"]
  ELSE IF verify_signatures(ts.verifier, li)
    THEN [ok |-> TRUE, change |-> "Version",
          new_state |-> [version |-> li.version, verifier |-> ts.verifier]]
    ELSE Err("VerificationFailed")

\* --------------------------------------------- LibraDemo::verify_state_proof
Unchanged(self, r, entered) ==
  [trusted_state |-> self.trusted_state,
   latest_epoch_change_li |-> self.latest_epoch_change_li,
   ret |-> r, ratcheted |-> entered]

\* the match with an Epoch arm that leaves latest_epoch_change_li as it is
ApplyChange_keep_li(self, r) ==
  IF r.change = "NoChange" THEN Unchanged(self, "NoChange", TRUE)
  ELSE [trusted_state |-> Some(r.new_state),
        latest_epoch_change_li |-> self.latest_epoch_change_li,
        ret |-> r.change, ratcheted |-> TRUE]

\* the match on the TrustedStateChange that verify_and_ratchet returned
ApplyChange(self, r) ==
  IF r.change = "Epoch"
    THEN [trusted_state |-> Some(r.new_state),
          latest_epoch_change_li |-> Some(r.latest_epoch_change_li),
          ret |-> "Epoch", ratcheted |-> TRUE]
  ELSE IF r.change = "Version"
    THEN [trusted_state |-> Some(r.new_state),
          latest_epoch_change_li |-> self.latest_epoch_change_li,
          ret |-> "Version", ratcheted |-> TRUE]
  ELSE Unchanged(self, "NoChange", TRUE)

\* verify_state_proof with the comparison of the ensure! turned around
verify_state_proof_inverted(self, li, epoch_change_proof) ==
  IF ~(li.version <= latest_version(Unwrap(self.trusted_state)))
    THEN Unchanged(self, "StaleProof", FALSE)
  ELSE LET r == verify_and_ratchet(Unwrap(self.trusted_state), li, epoch_change_proof) IN
    IF ~r.ok THEN Unchanged(self, r.change, TRUE) ELSE ApplyChange(self, r)

\* verify_state_proof without the ensure!
verify_state_proof_no_ensure(self, li, epoch_change_proof) ==
  LET r == verify_and_ratchet(Unwrap(self.trusted_state), li, epoch_change_proof) IN
  IF ~r.ok THEN Unchanged(self, r.change, TRUE) ELSE ApplyChange(self, r)

\* verify_state_proof that records the last checkpoint of the proof as the
\* latest epoch change before verify_and_ratchet has accepted it
verify_state_proof_eager(self, li, epoch_change_proof) ==
  IF ~(li.version >= latest_version(Unwrap(self.trusted_state)))
    THEN Unchanged(self, "StaleProof", FALSE)
  ELSE LET r == verify_and_ratchet(Unwrap(self.trusted_state), li, epoch_change_proof) IN
    IF ~r.ok
      THEN [Unchanged(self, r.change, TRUE) EXCEPT
              !.latest_epoch_change_li = Some(epoch_change_proof[Len(epoch_change_proof)])]
      ELSE ApplyChange(self, r)

\* verify_state_proof that drops the error of verify_and_ratchet instead
\* of returning it
verify_state_proof_swallow(self, li, epoch_change_proof) ==
  IF ~(li.version >= latest_version(Unwrap(self.trusted_state)))
    THEN Unchanged(self, "StaleProof", FALSE)
  ELSE LET r == verify_and_ratchet(Unwrap(self.trusted_state), li, epoch_change_proof) IN
    IF ~r.ok THEN Unchanged(self, "NoChange", TRUE) ELSE ApplyChange(self, r)

\* verify_state_proof whose Version arm does not store the new state
verify_state_proof_forget_version(self, li, epoch_change_proof) ==
  IF ~(li.version >= latest_version(Unwrap(self.trusted_state)))
    THEN Unchanged(self, "StaleProof", FALSE)
  ELSE LET r == verify_and_ratchet(Unwrap(self.trusted_state), li, epoch_change_proof) IN
    IF ~r.ok THEN Unchanged(self, r.change, TRUE)
    ELSE IF r.change = "Version" THEN Unchanged(self, "Version", TRUE)
    ELSE ApplyChange(self, r)

\* verify_state_proof whose ensure! asks for a strictly newer version
verify_state_proof_strict(self, li, epoch_change_proof) ==
  IF ~(li.version > latest_version(Unwrap(self.trusted_state)))
    THEN Unchanged(self, "StaleProof", FALSE)
  ELSE LET r == verify_and_ratchet(Unwrap(self.trusted_state), li, epoch_change_proof) IN
    IF ~r.ok THEN Unchanged(self, r.change, TRUE) ELSE ApplyChange(self, r)

\* The anchor fields after the call and what the call returned.  self is
\* [trusted_state, latest_epoch_change_li]; ratcheted tells whether
\* verify_and_ratchet was entered.
verify_state_proof(self, li, epoch_change_proof) ==
  LET client_version == latest_version(Unwrap(self.trusted_state)) IN
  IF ~(li.version >= client_version)
    THEN Unchanged(self, "StaleProof", FALSE)
  ELSE LET r == verify_and_ratchet(Unwrap(self.trusted_state), li, epoch_change_proof) IN
    IF ~r.ok THEN Unchanged(self, r.change, TRUE) ELSE ApplyChange(self, r)

\* ------------------------------------------------------------------ state
VARIABLES
  pc,                      \* where the bridge task is
  trusted_state,           \* LibraDemo.trusted_state : Option<TrustedState>
  latest_epoch_change_li,  \* LibraDemo.latest_epoch_change_li
  latest_li,               \* LibraDemo.latest_li
  transactions,            \* LibraDemo.transactions: the page last fetched
  epoch_change_proof,      \* init_state's epoch_change_proof
  ledger_info_with_signatures, \* init_state's ledger_info_with_signatures
  ledger_consistency_proof,\* init_state's ledger_consistency_proof:
                           \* TRUE when it links the anchor to the candidate
  anchor_at_call,          \* the anchor as this call of init_state found it
  ret,                     \* what verify_state_proof returned in this pass
  ratcheted,               \* verify_and_ratchet was entered in this pass
  start,                   \* bridge's start
  limit,                   \* bridge's limit
  cursor_at_pass,          \* <<start, limit>> at the top of this pass
  index,                   \* the for loop's index
  end,                     \* bridge's end
  covered,                 \* the version intervals requested so far, in order
  pages_in_pass,           \* get_transactions requests issued in this pass
  pages_since_pause,       \* requests issued since the last pause of the pass
  passes                   \* completed passes

vars == <<pc, trusted_state, latest_epoch_change_li, latest_li, transactions,
          epoch_change_proof, ledger_info_with_signatures,
          ledger_consistency_proof, anchor_at_call, ret, ratcheted,
          start, limit, cursor_at_pass, index, end, covered, pages_in_pass,
          pages_since_pause, passes>>

anchor == <<trusted_state, latest_epoch_change_li, latest_li>>

cursor == <<start, limit>>

\* LibraDemo::new and the locals of bridge before the loop
Init ==
  /\ pc = "loop"
  /\ trusted_state = None
  /\ latest_epoch_change_li = None
  /\ latest_li = None
  /\ transactions = None
  /\ epoch_change_proof = None
  /\ ledger_info_with_signatures = None
  /\ ledger_consistency_proof = None
  /\ anchor_at_call = None
  /\ ret = "none"
  /\ ratcheted = FALSE
  /\ start = 0
  /\ limit = catch_up_limit
  /\ cursor_at_pass = <<0, catch_up_limit>>
  /\ index = 0
  /\ end = 0
  /\ covered = <<>>
  /\ pages_in_pass = 0
  /\ pages_since_pause = 0
  /\ passes = 0

\* a panic (an unwrap of an Err or None, an index out of range) ends the
\* process
Panic ==
  /\ pc' = "panicked"
  /\ UNCHANGED <<trusted_state, latest_epoch_change_li, latest_li, transactions,
                 epoch_change_proof, ledger_info_with_signatures,
                 ledger_consistency_proof, anchor_at_call, ret, ratcheted,
                 start, limit, cursor_at_pass, index, end, covered,
                 pages_in_pass, pages_since_pause, passes>>

\* init_state up to the call of verify_state_proof: the request, the
\* decoding and the zero version state, for an answer among responses
InitStateBootstrap(responses) ==
  /\ pc = "loop"
  /\ \E resp \in responses :
     IF resp.kind # "decoded" THEN Panic
     ELSE IF resp.epoch_change_proof = <<>> THEN Panic
     ELSE IF TrustedState_try_from(resp.epoch_change_proof[1]) = None THEN Panic
     ELSE /\ latest_epoch_change_li' = Some(resp.epoch_change_proof[1])
          /\ trusted_state' = TrustedState_try_from(resp.epoch_change_proof[1])
          /\ latest_li' = Some(resp.ledger_info_with_signatures)
          /\ epoch_change_proof' = Some(resp.epoch_change_proof)
          /\ ledger_info_with_signatures' = Some(resp.ledger_info_with_signatures)
          /\ ledger_consistency_proof' = Some(resp.ledger_consistency_proof)
          /\ anchor_at_call' = Some(anchor)
          /\ ret' = "none"
          /\ ratcheted' = FALSE
          /\ cursor_at_pass' = cursor
          /\ pages_in_pass' = 0
          /\ pages_since_pause' = 0
          /\ pc' = "verify"
          /\ UNCHANGED <<transactions, start, limit, index, end, covered, passes>>

\* the rest of init_state: the call of verify_state_proof, whose result is
\* dropped, and the return
InitStateVerify ==
  /\ pc = "verify"
  /\ LET r == verify_state_proof(
                [trusted_state |-> trusted_state,
                 latest_epoch_change_li |-> latest_epoch_change_li],
                Unwrap(ledger_info_with_signatures), Unwrap(epoch_change_proof)) IN
       /\ trusted_state' = r.trusted_state
       /\ latest_epoch_change_li' = r.latest_epoch_change_li
       /\ ret' = r.ret
       /\ ratcheted' = r.ratcheted
  /\ pc' = "read_version"
  /\ UNCHANGED <<latest_li, transactions, epoch_change_proof,
                 ledger_info_with_signatures, ledger_consistency_proof,
                 anchor_at_call, start, limit, cursor_at_pass, index,
                 end, covered, pages_in_pass, pages_since_pause, passes>>

\* ReadVersion with end rounded up to a whole page
ReadVersion_round_up ==
  /\ pc = "read_version"
  /\ end' = latest_version(Unwrap(trusted_state)) \div limit + 1
  /\ index' = start
  /\ epoch_change_proof' = None
  /\ ledger_info_with_signatures' = None
  /\ ledger_consistency_proof' = None
  /\ anchor_at_call' = None
  /\ pc' = "for"
  /\ UNCHANGED <<trusted_state, latest_epoch_change_li, latest_li, transactions,
                 ret, ratcheted, start, limit, cursor_at_pass, covered,
                 pages_in_pass, pages_since_pause, passes>>

\* bridge: new_version, end and the start of the for loop; what init_state
\* decoded is gone
ReadVersion ==
  /\ pc = "read_version"
  /\ end' = latest_version(Unwrap(trusted_state)) \div limit
  /\ index' = start
  /\ epoch_change_proof' = None
  /\ ledger_info_with_signatures' = None
  /\ ledger_consistency_proof' = None
  /\ anchor_at_call' = None
  /\ pc' = "for"
  /\ UNCHANGED <<trusted_state, latest_epoch_change_li, latest_li, transactions,
                 ret, ratcheted, start, limit, cursor_at_pass, covered,
                 pages_in_pass, pages_since_pause, passes>>

\* the history of requested versions, contiguous pages merged
AddPage(cov, start_version, lim) ==
  IF cov # <<>> /\ cov[Len(cov)][2] + 1 = start_version
    THEN [cov EXCEPT ![Len(cov)] = <<cov[Len(cov)][1], start_version + lim - 1>>]
    ELSE Append(cov, <<start_version, start_version + lim - 1>>)

\* the first version of the page the for loop asks for at index
PageStart(idx, lim) == idx * lim + 1

\* the pause condition of the for loop
PauseDue(idx) == idx > 0 /\ idx % pause_every = 0

\* one iteration of the for loop: get_transactions and the pause test
GetTransactions(transport_ok) ==
  /\ pc = "for"
  /\ index < end
  /\ IF ~transport_ok THEN Panic
     ELSE /\ transactions' = Some(<<PageStart(index, limit), limit>>)
          /\ covered' = AddPage(covered, PageStart(index, limit), limit)
          /\ pages_in_pass' = pages_in_pass + 1
          /\ pages_since_pause' = pages_since_pause + 1
          /\ index' = index + 1
          /\ pc' = IF PauseDue(index) THEN "pause" ELSE "for"
          /\ UNCHANGED <<trusted_state, latest_epoch_change_li, latest_li,
                         epoch_change_proof, ledger_info_with_signatures,
                         ledger_consistency_proof, anchor_at_call, ret,
                         ratcheted, start, limit, cursor_at_pass, end, passes>>

\* the 300ms delay inside the for loop
RateLimitPause ==
  /\ pc = "pause"
  /\ pages_since_pause' = 0
  /\ pc' = "for"
  /\ UNCHANGED <<trusted_state, latest_epoch_change_li, latest_li, transactions,
                 epoch_change_proof, ledger_info_with_signatures,
                 ledger_consistency_proof, anchor_at_call, ret, ratcheted,
                 start, limit, cursor_at_pass, index, end, covered,
                 pages_in_pass, passes>>

\* the end of the for loop: the new start and limit
Reseed ==
  /\ pc = "for"
  /\ ~(index < end)
  /\ start' = (end * limit) \div new_limit
  /\ limit' = new_limit
  /\ pc' = "idle"
  /\ UNCHANGED <<trusted_state, latest_epoch_change_li, latest_li, transactions,
                 epoch_change_proof, ledger_info_with_signatures,
                 ledger_consistency_proof, anchor_at_call, ret, ratcheted,
                 cursor_at_pass, index, end, covered, pages_in_pass,
                 pages_since_pause, passes>>

\* the 5000ms delay and the jump back to the top of the loop; index and
\* end go out of scope with the loop body
IdleWait ==
  /\ pc = "idle"
  /\ passes < MaxPasses
  /\ passes' = passes + 1
  /\ index' = 0
  /\ end' = 0
  /\ pc' = "loop"
  /\ UNCHANGED <<trusted_state, latest_epoch_change_li, latest_li, transactions,
                 epoch_change_proof, ledger_info_with_signatures,
                 ledger_consistency_proof, anchor_at_call, ret, ratcheted,
                 start, limit, cursor_at_pass, covered, pages_in_pass,
                 pages_since_pause>>

\* the sync loop against the server of LoopResponses
Next ==
  \/ InitStateBootstrap(LoopResponses)
  \/ InitStateVerify
  \/ ReadVersion
  \/ \E transport_ok \in BOOLEAN : GetTransactions(transport_ok)
  \/ RateLimitPause
  \/ Reseed
  \/ IdleWait

Spec == Init /\ [][Next]_vars

\* the first call of init_state, with every proof and candidate within the
\* bounds
NextRatchet ==
  \/ InitStateBootstrap(StateProofResponses)
  \/ InitStateVerify

SpecRatchet == Init /\ [][NextRatchet]_vars

\* ------------------------------------------------------------ properties
Errors == {"StaleProof", "VerificationFailed"}

\* the step in which verify_state_proof runs
VerifyStep == pc = "verify" /\ pc' = "read_version"

epoch_of(ts) == Unwrap(ts).verifier.epoch

version_of(ts) == latest_version(Unwrap(ts))

\* C1: whatever verify_state_proof returns, latest_version and the epoch of
\* the trusted state after the call are not less than before it
C1_RatchetMonotonic ==
  [][VerifyStep =>
       /\ version_of(trusted_state') >= version_of(trusted_state)
       /\ epoch_of(trusted_state') >= epoch_of(trusted_state)]_vars

\* a call that advanced both the version and the epoch, from the anchor
\* of genesis to a candidate of epoch 2
C1_Witness ==
  /\ pc = "read_version"
  /\ ret = "Epoch"
  /\ version_of(trusted_state) = EpochEnd(1)
  /\ Unwrap(latest_epoch_change_li).epoch = 1
  /\ epoch_of(trusted_state) = 2

\* C2: when verify_state_proof returns an error, trusted_state and
\* latest_epoch_change_li are what they were before the call
C2_ErrorLeavesAnchor ==
  [][(VerifyStep /\ ret' \in Errors) =>
       /\ trusted_state' = trusted_state
       /\ latest_epoch_change_li' = latest_epoch_change_li]_vars

\* a call that failed inside the ratchet, on a proof of two steps
C2_Witness ==
  /\ pc = "read_version"
  /\ ret = "VerificationFailed"
  /\ ratcheted
  /\ Unwrap(latest_li).epoch > epoch_of(trusted_state)
\* the walk meets a gap when it starts from the validator set es: some
\* step is not signed by the set the step before it established (the first
\* one by es), establishes no set, or does not increase the epoch id
GapFrom(es, steps) ==
  \E i \in 1..Len(steps) :
    LET prev == IF i = 1 THEN Some(es) ELSE steps[i - 1].next_epoch_state IN
      \/ ~IsSome(prev)
      \/ ~IsSome(steps[i].next_epoch_state)
      \/ steps[i].epoch # Unwrap(prev).epoch
      \/ steps[i].sigs # Unwrap(prev).vs
      \/ Unwrap(steps[i].next_epoch_state).epoch <= Unwrap(prev).epoch

\* the checkpoint sequence itself has a gap after its first step
HasGap(proof) ==
  Len(proof) >= 2 /\ IsSome(proof[1].next_epoch_state)
    /\ GapFrom(Unwrap(proof[1].next_epoch_state), Tail(proof))

C7_StaleBeforeRatchet ==
  [][(VerifyStep
      /\ Unwrap(ledger_info_with_signatures).version < version_of(trusted_state))
     =>
       /\ ret' = "StaleProof"
       /\ ~ratcheted'
       /\ trusted_state' = trusted_state
       /\ latest_epoch_change_li' = latest_epoch_change_li]_vars

\* a stale candidate of the anchor's own epoch, validly signed, turned away
C7_Witness ==
  /\ pc = "read_version"
  /\ ret = "StaleProof"
  /\ ~ratcheted
  /\ Unwrap(latest_li).version < version_of(trusted_state)
  /\ Unwrap(latest_li).epoch = epoch_of(trusted_state)
  /\ Unwrap(latest_li).sigs = Unwrap(trusted_state).verifier.vs
\* C3: once the anchor exists, its latest_version never decreases, at any
\* step of the sync loop
C3_VersionNeverDecreases ==
  [][(IsSome(trusted_state) /\ IsSome(trusted_state')) =>
       version_of(trusted_state') >= version_of(trusted_state)]_vars

\* C4: a pass that starts with an anchor and whose verification fails
\* leaves trusted_state, latest_epoch_change_li and latest_li as they were
\* at the start of the pass
C4_FailedPassLeavesAnchor ==
  (/\ pc = "read_version"
   /\ ret \in Errors
   /\ IsSome(Unwrap(anchor_at_call)[1]))
  => anchor = Unwrap(anchor_at_call)

\* C6: a pass whose consistency proof does not link the version the anchor
\* has when the ratchet is called to the later version of the candidate
\* ends in a verification failure, and latest_version does not become the
\* candidate's version
C6_ConsistencyProofChecked ==
  (/\ pc = "read_version"
   /\ ledger_consistency_proof = Some(FALSE)
   /\ Unwrap(ledger_info_with_signatures).version > Unwrap(epoch_change_proof)[1].version)
  => /\ ret = "VerificationFailed"
     /\ version_of(trusted_state) # Unwrap(ledger_info_with_signatures).version

\* C8: when pagination is exhausted for a verified range [0, V] of more
\* than one page, the pages requested cover exactly 0..V, each version
\* once, in ascending order
C8_PagesCoverRange ==
  (pc = "idle" /\ version_of(trusted_state) > catch_up_limit)
  => covered = << <<0, version_of(trusted_state)>> >>

\* C9: no failure inside a pass ends the process
C9_NeverTerminates == pc # "panicked"

\* C10: a pass whose ratchet call ended in a stale-proof or verification
\* failure has issued no get_transactions request and ends with the
\* pagination cursor it started with
C10_FailedPassAbandoned ==
  (pc = "idle" /\ ret \in Errors)
  => /\ pages_in_pass = 0
     /\ cursor = cursor_at_pass

\* C11: whenever an anchor exists, the epoch that latest_epoch_change_li
\* establishes is the epoch of the validator set held in trusted_state
C11_EpochChangeMatchesEpoch ==
  IsSome(trusted_state)
  => /\ IsSome(latest_epoch_change_li)
     /\ IsSome(Unwrap(latest_epoch_change_li).next_epoch_state)
     /\ Unwrap(Unwrap(latest_epoch_change_li).next_epoch_state).epoch
          = epoch_of(trusted_state)

\* the anchor of a later pass, after a cross-epoch advance to epoch 2 from
\* a checkpoint that ends epoch 1
C11_Witness ==
  /\ passes = 1
  /\ pc = "idle"
  /\ ret = "Epoch"
  /\ epoch_of(trusted_state) = 2
  /\ Unwrap(latest_epoch_change_li) = EndOfEpochOne("a")


\* C12: when verify_state_proof accepts a candidate of the anchor's epoch
\* (outcome Version), the validator set and its epoch, latest_epoch_change_li
\* and latest_li are left as they were, and latest_version becomes the
\* candidate's version
C12_VersionAdvanceFrame ==
  [][(VerifyStep /\ ret' = "Version") =>
       /\ Unwrap(trusted_state').verifier = Unwrap(trusted_state).verifier
       /\ latest_epoch_change_li' = latest_epoch_change_li
       /\ latest_li' = latest_li
       /\ version_of(trusted_state') = Unwrap(ledger_info_with_signatures).version
       /\ Unwrap(ledger_info_with_signatures).epoch = epoch_of(trusted_state)]_vars

\* a same-epoch advance from the anchor of genesis to a later version
C12_Witness ==
  /\ pc = "read_version"
  /\ ret = "Version"
  /\ epoch_of(trusted_state) = 1
  /\ Unwrap(latest_epoch_change_li).version = 0
  /\ version_of(trusted_state) = catch_up_limit
  /\ Unwrap(latest_li).version = catch_up_limit


\* C13: a candidate with the anchor's latest_version and the anchor's epoch
\* makes verify_state_proof return Ok with outcome NoChange and leave
\* trusted_state and latest_epoch_change_li untouched, and so does the same
\* call made again on the result
C13_NoChangeIdempotent ==
  [][(/\ VerifyStep
      /\ Unwrap(ledger_info_with_signatures).version = version_of(trusted_state)
      /\ Unwrap(ledger_info_with_signatures).epoch = epoch_of(trusted_state))
     =>
       /\ ret' = "NoChange"
       /\ trusted_state' = trusted_state
       /\ latest_epoch_change_li' = latest_epoch_change_li
       /\ LET again == verify_state_proof(
                         [trusted_state |-> trusted_state',
                          latest_epoch_change_li |-> latest_epoch_change_li'],
                         Unwrap(ledger_info_with_signatures),
                         Unwrap(epoch_change_proof)) IN
            /\ again.ret = "NoChange"
            /\ again.trusted_state = trusted_state
            /\ again.latest_epoch_change_li = latest_epoch_change_li]_vars

\* NoChange on the anchor of the checkpoint that ends epoch 1
C13_Witness ==
  /\ pc = "read_version"
  /\ ret = "NoChange"
  /\ epoch_of(trusted_state) = 2
  /\ Unwrap(latest_li).epoch = 2
  /\ version_of(trusted_state) = EpochEnd(1)
  /\ Unwrap(latest_li).version = EpochEnd(1)


\* the candidate is signed by the set that the last step of the walk
\* establishes
SignedByLast(steps, li) ==
  /\ steps # <<>>
  /\ IsSome(steps[Len(steps)].next_epoch_state)
  /\ li.epoch = Unwrap(steps[Len(steps)].next_epoch_state).epoch
  /\ li.sigs = Unwrap(steps[Len(steps)].next_epoch_state).vs

\* C14 as claimed: a candidate of a later epoch than the anchor is always
\* evaluated through the epoch-change proof, whatever its version
C14_EpochDecides ==
  [][(VerifyStep
      /\ Unwrap(ledger_info_with_signatures).epoch > epoch_of(trusted_state))
     =>
       /\ ratcheted'
       /\ ret' \in {"Epoch", "VerificationFailed"}]_vars

\* C14: a candidate of a later epoch than the anchor whose version is not
\* below latest_version is evaluated through the epoch-change proof and
\* never as a same-epoch advance: the outcome is Epoch when the walk from
\* the anchor's validator set has no gap and ends in the set that signed
\* the candidate, VerificationFailed otherwise, and it is the same for
\* every version that is not below latest_version
C14_EpochDecidesUnlessStale ==
  [][(/\ VerifyStep
      /\ Unwrap(ledger_info_with_signatures).epoch > epoch_of(trusted_state)
      /\ Unwrap(ledger_info_with_signatures).version >= version_of(trusted_state))
     =>
       LET li == Unwrap(ledger_info_with_signatures)
           es == Unwrap(trusted_state).verifier
           steps == SkipStale(es, Unwrap(epoch_change_proof))
           self == [trusted_state |-> trusted_state,
                    latest_epoch_change_li |-> latest_epoch_change_li] IN
       /\ ratcheted'
       /\ ret' \in {"Epoch", "VerificationFailed"}
       /\ ret' = "Epoch" <=> (~GapFrom(es, steps) /\ SignedByLast(steps, li))
       /\ \A v \in Versions :
            v >= version_of(trusted_state) =>
              verify_state_proof(self, [li EXCEPT !.version = v],
                                 Unwrap(epoch_change_proof)).ret = ret']_vars

\* a candidate of epoch 2 at the very version of the anchor of epoch 1,
\* accepted as an epoch advance
C14_Witness ==
  /\ pc = "read_version"
  /\ ret = "Epoch"
  /\ Unwrap(latest_li).epoch = 2
  /\ Unwrap(epoch_change_proof)[1].next_epoch_state = Some([epoch |-> 1, vs |-> "a"])
  /\ Unwrap(latest_li).version = Unwrap(epoch_change_proof)[1].version


\* C15: the anchor is bootstrapped from the first checkpoint of the
\* epoch-change proof only on the pass that finds no anchor, and then no
\* ratchet call follows; a pass that finds an anchor does not rebuild it
\* from the answer of the server but hands it to the ratchet call as it is
C15_BootstrapOnce ==
  [][/\ (pc = "loop" /\ pc' = "verify" /\ IsSome(trusted_state))
          => /\ anchor' = anchor
             /\ anchor_at_call' = Some(anchor)
     /\ (VerifyStep /\ passes = 0) => ~ratcheted']_vars


\* the highest version requested before the pass began: start * limit
HighWater(cur) == cur[1] * cur[2]

\* C16: when a pass whose anchor is at version V enters the idle wait, the
\* pages requested during the pass cover every version above the previous
\* high-water mark up to V inclusive, in ascending order
C16_PaginationExhausted ==
  (pc = "idle" /\ version_of(trusted_state) > HighWater(cursor_at_pass))
  => /\ pages_in_pass > 0
     /\ pages_in_pass * cursor_at_pass[2]
          = version_of(trusted_state) - HighWater(cursor_at_pass)
     /\ covered[Len(covered)][1] <= HighWater(cursor_at_pass) + 1
     /\ covered[Len(covered)][2] = version_of(trusted_state)


\* the highest version requested so far, 0 before the first request
LastRequested == IF covered = <<>> THEN 0 ELSE covered[Len(covered)][2]

\* C17: the high-water mark start * limit never decreases, also where the
\* page size changes, and the first page of a pass starts one version
\* after the last version requested before
C17_HighWaterMonotonic ==
  [][/\ HighWater(<<start', limit'>>) >= HighWater(<<start, limit>>)
     /\ (pages_in_pass = 0 /\ pages_in_pass' = 1)
          => Unwrap(transactions')[1] = LastRequested + 1]_vars


\* C18: every get_transactions request ends at or below the anchor's
\* latest_version at the moment it is issued:
\* start_version + limit - 1 <= latest_version
C18_PagesWithinVerified ==
  [][(pages_in_pass' = pages_in_pass + 1)
     => Unwrap(transactions')[1] + Unwrap(transactions')[2] - 1
          <= version_of(trusted_state)]_vars

\* a steady-state page that ends exactly at the anchor's version
C18_Witness ==
  /\ pc = "for"
  /\ pages_in_pass > 0
  /\ limit = new_limit
  /\ transactions = Some(<<version_of(trusted_state), new_limit>>)
  /\ version_of(trusted_state) = catch_up_limit + 1


\* C19: within a pass at most 100 get_transactions requests are issued
\* before the first rate-limiting pause and between two consecutive pauses
C19_PauseEveryHundred == pages_since_pause <= pause_every

====
